---- MODULE Spec2Model ----
(***************************************************************************)
(* Model of the order-creation transaction of kopikopi-be (src/app.py):    *)
(* the handlers request_order_code and verify_and_create_order, run by     *)
(* concurrent requests over one MySQL database.                            *)
(*                                                                         *)
(* The database is modelled as committed tables plus, per open             *)
(* transaction, the uncommitted writes and the row locks it holds.  A      *)
(* statement that would touch a row locked by another transaction waits    *)
(* (its action is disabled) and, once the lock is released, evaluates its  *)
(* WHERE clause against the latest committed rows and its own writes.      *)
(* Only rows that exist are locked: app.py sets no isolation level and     *)
(* takes no lock of its own on an identifier.                              *)
(***************************************************************************)
EXTENDS Integers, Sequences, FiniteSets, TLC

VARIABLES now, code_verify, customer, orders, pc, loc, tx, resp, borrowed, consumedFor, load, started, lost

vars == <<now, code_verify, customer, orders, pc, loc, tx, resp, borrowed, consumedFor, load, started, lost>>

\* ---- bounds of the model ----
\* MaxReqs requests arrive and are served by two workers, so that two of them
\* can be in progress at once (Spec), or MaxSeq requests arrive one after the
\* other (SpecSeq).  A worker that has answered keeps its answer until the
\* next request arrives.  The clock runs from 0 to MaxTime.
MaxReqs == 2
MaxSeq == 3
MaxTime == 1
Reqs == {1, 2}

\* ---- program constants ----
Pending == 0
Consumed == 1
Superseded == 2
MaxAttempts == 8
ExpiresInSeconds == 300
NULL == -1

Emails == {"a", "b"}
RawEmails == {"a", "A ", "b", "bad"}
\* The codes generate_otp_code draws, the codes a client sends (3 is the code
\* of the challenge stored at the start), and a code that is not 4 digits.
Codes == {1, 2}
SentCodes == {1, 3}
BadCode == 0
RefNums == {1, 2}

\* normalize_email: strip and lower-case.
normalize_email(e) ==
  CASE e = "A " -> "a"
    [] OTHER -> e

\* is_valid_email: EMAIL_REGEX match.
is_valid_email(e) == e \in Emails

\* The catalog (table menu): id -> price in cents, availability.
menu ==
  { [id |-> 1, price |-> 500, is_available |-> 1],
    [id |-> 2, price |-> 350, is_available |-> 1],
    [id |-> 3, price |-> 900, is_available |-> 0] }

\* JSON values of a cart line: t is the JSON type, v the integer it holds.
JInt(n) == [t |-> "int", v |-> n]
JBad == [t |-> "str", v |-> 0]
JNone == [t |-> "null", v |-> 0]

\* int(x) of Python: raises TypeError/ValueError for None and non-numeric text.
IntOk(x) == x.t = "int"
IntVal(x) == x.v

\* A cart entry: id and qty are read by the handler, price is a field a
\* client may add to the entry.
Line(i, q) == [obj |-> TRUE, id |-> i, qty |-> q, price |-> JNone]
PricedLine(i, q, p) == [obj |-> TRUE, id |-> i, qty |-> q, price |-> p]
NonObject == [obj |-> FALSE, id |-> JNone, qty |-> JNone, price |-> JNone]

Carts ==
  { <<Line(JInt(1), JInt(2))>>,
    <<PricedLine(JInt(1), JInt(1), JInt(1)), Line(JInt(2), JInt(3))>>,
    <<Line(JInt(1), JInt(1)), Line(JInt(3), JInt(1))>>,
    <<Line(JInt(1), JInt(0))>>,
    <<Line(JInt(1), JBad)>>,
    <<Line(JBad, JInt(1))>>,
    <<NonObject>>,
    << >> }

\* ---- Pricing: build_order_items ----

\* menu_map of verify_and_create_order: the available menu rows among the ids asked for.
MenuMap(ids) == { m \in menu : m.id \in ids /\ m.is_available = 1 }

MenuRow(menu_map, i) == CHOOSE m \in menu_map : m.id = i

OrderItem_NoQty(m, q) == [id |-> m.id, qty |-> q, price |-> m.price, line_total |-> m.price]

OrderItem(m, q) == [id |-> m.id, qty |-> q, price |-> m.price, line_total |-> m.price * q]

RECURSIVE BuildFrom(_, _, _, _, _)
BuildFrom(menu_map, raw_items, i, order_items, total) ==
  IF i > Len(raw_items)
  THEN [err |-> "none", items |-> order_items, total |-> total]
  ELSE LET raw_item == raw_items[i] IN
    IF ~raw_item.obj
    THEN [err |-> "AttributeError", items |-> << >>, total |-> 0]
    ELSE IF ~IntOk(raw_item.id) \/ ~IntOk(raw_item.qty)
    THEN [err |-> "Invalid menu item payload.", items |-> << >>, total |-> 0]
    ELSE IF IntVal(raw_item.qty) < 1
    THEN [err |-> "Quantity must be at least 1.", items |-> << >>, total |-> 0]
    ELSE IF \A m \in menu_map : m.id # IntVal(raw_item.id)
    THEN [err |-> "Menu item is unavailable.", items |-> << >>, total |-> 0]
    ELSE LET item == OrderItem(MenuRow(menu_map, IntVal(raw_item.id)), IntVal(raw_item.qty)) IN
         BuildFrom(menu_map, raw_items, i + 1, Append(order_items, item), total + item.line_total)

build_order_items(menu_map, raw_items) == BuildFrom(menu_map, raw_items, 1, << >>, 0)

\* ---- Order status and its tracking view ----

\* orders.status: NULL or a text, the text a sequence of characters.
Text(chars) == [null |-> FALSE, text |-> chars]
NullStatus == [null |-> TRUE, text |-> << >>]

\* The status verify_and_create_order stores: 'Pending'.
StatusPending == Text(<<"P", "e", "n", "d", "i", "n", "g">>)

\* Statuses the back office may have stored in orders.status.
RawStatuses ==
  { NullStatus,
    Text(<<"P", "e", "n", "d", "i", "n", "g">>),
    Text(<<"C", "o", "m", "p", "l", "e", "t", "e", "d">>),
    Text(<<"r", "e", "a", "d", "y">>),
    Text(<<"D", "e", "l", "i", "v", "e", "r", "e", "d", " ">>),
    Text(<<"C", "A", "N", "C", "E", "L", "L", "E", "D">>),
    Text(<<>>),
    Text(<<"r", "e", "a", "d", "y", " ", "f", "o", "r", " ", "p", "i", "c", "k", "u", "p">>),
    Text(<<" ", "c", "o", "m", "p", "l", "e", "t", "e">>),
    Text(<<"d", "e", "l", "i", "v", "e", "r", "y">>),
    Text(<<"c", "a", "n", "c", "e", "l", "e", "d">>),
    Text(<<"R", "e", "a", "d", "y", "_", "F", "o", "r", "_", "P", "i", "c", "k", "u", "p">>),
    Text(<<"r", "e", "a", "d", "y", "\t", "f", "o", "r", " ", "p", "i", "c", "k", "u", "p">>),
    Text(<<"c", "a", "n", "c", "e", "l", " ", "l", "e", "d">>),
    Text(<<" ">>),
    Text(<<"\t", "C", "a", "n", "c", "e", "l", "l", "e", "d", "\t">>),
    Text(<<"C", "o", "m", "p", "l", "e", "t", "e", " ", "d">>) }

\* str.lower() on the letters; every other character is unchanged.
LowerOf ==
    ("A" :> "a") @@ ("B" :> "b") @@ ("C" :> "c") @@ ("D" :> "d") @@ ("E" :> "e")
    @@ ("F" :> "f") @@ ("G" :> "g") @@ ("H" :> "h") @@ ("I" :> "i") @@ ("J" :>
    "j") @@ ("K" :> "k") @@ ("L" :> "l") @@ ("M" :> "m") @@ ("N" :> "n") @@ ("O"
    :> "o") @@ ("P" :> "p") @@ ("Q" :> "q") @@ ("R" :> "r") @@ ("S" :> "s") @@
    ("T" :> "t") @@ ("U" :> "u") @@ ("V" :> "v") @@ ("W" :> "w") @@ ("X" :> "x")
    @@ ("Y" :> "y") @@ ("Z" :> "z")

lower(c) == IF c \in DOMAIN LowerOf THEN LowerOf[c] ELSE c

\* The characters str.strip() removes.
Whitespace == {" ", "\t"}

RECURSIVE lstrip(_)
lstrip(t) == IF t # << >> /\ Head(t) \in Whitespace THEN lstrip(Tail(t)) ELSE t

RECURSIVE rstrip(_)
rstrip(t) == IF t # << >> /\ t[Len(t)] \in Whitespace THEN rstrip(SubSeq(t, 1, Len(t) - 1)) ELSE t

strip_Left(t) == lstrip(t)

strip(t) == rstrip(lstrip(t))

\* (db_status or "").strip().lower().replace(" ", "_")
StatusForm(db_status) ==
  LET t == strip(IF db_status.null THEN << >> ELSE db_status.text)
      l == [i \in 1..Len(t) |-> lower(t[i])] IN
  [i \in 1..Len(t) |-> IF l[i] = " " THEN "_" ELSE l[i]]

CancelledForm == <<"c", "a", "n", "c", "e", "l", "l", "e", "d">>

ReadyForms ==
  { <<"c", "o", "m", "p", "l", "e", "t", "e", "d">>,
    <<"c", "o", "m", "p", "l", "e", "t", "e">>,
    <<"r", "e", "a", "d", "y", "_", "f", "o", "r", "_", "p", "i", "c", "k", "u", "p">>,
    <<"r", "e", "a", "d", "y">>,
    <<"d", "e", "l", "i", "v", "e", "r", "y">>,
    <<"d", "e", "l", "i", "v", "e", "r", "e", "d">> }

normalize_tracking_status(db_status) ==
  LET status == StatusForm(db_status) IN
  IF Len(status) = Len(CancelledForm) /\ status = CancelledForm THEN "cancelled"
  ELSE IF \E k \in ReadyForms : Len(k) = Len(status) /\ k = status THEN "ready_for_pickup"
  ELSE "pending"

\* STATUS_FLOW, by key.
FlowKeys == <<"pending", "ready_for_pickup">>

CurrentIndex_FromOne(status_key) ==
  IF \E i \in 1..Len(FlowKeys) : FlowKeys[i] = status_key
  THEN CHOOSE i \in 1..Len(FlowKeys) : FlowKeys[i] = status_key
  ELSE 0

\* flow_keys.index(status_key) if status_key in flow_keys else 0
CurrentIndex(status_key) ==
  IF \E i \in 1..Len(FlowKeys) : FlowKeys[i] = status_key
  THEN (CHOOSE i \in 1..Len(FlowKeys) : FlowKeys[i] = status_key) - 1
  ELSE 0

\* ---- The database ----

NoTx == [upd |-> {}, cvNew |-> {}, custNew |-> {}, ordNew |-> {}, locks |-> {}]

NoLoc == [op |-> "none", email |-> "", code |-> 0, items |-> << >>, code_row |-> 0,
          order_items |-> << >>, order_total |-> 0, customer_id |-> 0,
          order_id |-> 0, ref_num |-> 0, attempts |-> 0, at |-> 0, during |-> {}]

NoResp == [status |-> 0, error |-> "", details |-> "", email_sent |-> FALSE,
           order_number |-> 0, db_status |-> NullStatus, order_status |-> "",
           current_index |-> 0, is_cancelled |-> FALSE]

\* A row of code_verify as transaction r reads it: its own UPDATEs applied.
Overlay(r, row) ==
  IF \E u \in tx[r].upd : u.id = row.id
  THEN [row EXCEPT !.status = (CHOOSE u \in tx[r].upd : u.id = row.id).status]
  ELSE row

\* code_verify as transaction r reads it: committed rows and its own writes.
CvView(r) == { Overlay(r, row) : row \in code_verify } \cup tx[r].cvNew

\* Rows locked by the other open transactions: those they updated or selected
\* FOR UPDATE, and those they inserted.
LockedByOthers(r) == UNION { tx[q].locks : q \in Reqs \ {r} }

\* The rows a locking statement of r comes across: what r reads and the rows
\* other open transactions have inserted.
Scanned(r) == CvView(r) \cup UNION { tx[q].cvNew : q \in Reqs \ {r} }

Waits_Never(r, rows) == FALSE

\* A locking statement waits while one of the rows it matches is locked by
\* another transaction.
Waits(r, rows) == { x.id : x \in rows } \cap LockedByOthers(r) # {}

\* AUTO_INCREMENT: a new row takes an id above those of all stored rows and
\* of the rows open transactions have inserted.
MaxId(ids) == IF ids = {} THEN 0 ELSE CHOOSE i \in ids : \A j \in ids : j <= i

nextId ==
  [cv |-> 1 + MaxId({ x.id : x \in code_verify \cup UNION { tx[q].cvNew : q \in Reqs } }),
   cust |-> 1 + MaxId({ x.id : x \in customer \cup UNION { tx[q].custNew : q \in Reqs } }),
   ord |-> 1 + MaxId({ x.id : x \in orders \cup UNION { tx[q].ordNew : q \in Reqs } })]

SetStatus(upd, ids, s) == { u \in upd : u.id \notin ids } \cup { [id |-> i, status |-> s] : i \in ids }

SqlGt_AtExpiry(x, y) == x # NULL /\ x >= y

\* SQL comparisons with a NULL operand are not true.
SqlLe(x, y) == x # NULL /\ x <= y
SqlGt(x, y) == x # NULL /\ x > y

\* COMMIT of transaction r: its writes become the committed rows.
CommittedCv(r) == CvView(r)

\* Rows stored before the application starts: an unexpired pending challenge
\* for "a", with or without an earlier order of the same email (and then two
\* customer rows of that email: the table has no unique key on it).
SeedFirst ==
  [cv |-> { [id |-> 1, identifier |-> "a", code |-> 3, status |-> Pending,
             expires_at |-> MaxTime, created_at |-> 0, issued |-> FALSE] },
   cust |-> {}, ord |-> {}, proof |-> {}]

SeedRepeat ==
  [cv |-> { [id |-> 1, identifier |-> "a", code |-> 2, status |-> Consumed,
             expires_at |-> MaxTime, created_at |-> 0, issued |-> FALSE],
            [id |-> 2, identifier |-> "a", code |-> 3, status |-> Pending,
             expires_at |-> MaxTime, created_at |-> 0, issued |-> FALSE] },
   cust |-> { [id |-> 1, email |-> "a"], [id |-> 2, email |-> "a"] },
   ord |-> { [id |-> 1, ref_num |-> 1, customer_id |-> 1, amount |-> 1000,
              items |-> <<[id |-> 1, qty |-> 2, price |-> 500, line_total |-> 1000]>>,
              status |-> StatusPending] },
   proof |-> { [order |-> 1, challenge |-> 1, email |-> "a", code |-> 2, at |-> 0] }]

\* The same once that challenge is gone: "a" has no pending challenge.
SeedSpent == [SeedRepeat EXCEPT !.cv = { c \in @ : c.status # Pending }]

Seeds == {SeedFirst, SeedRepeat, SeedSpent}

InitDb ==
  /\ now = 0
  /\ started = 0
  /\ \E seed \in Seeds :
       /\ code_verify = seed.cv
       /\ customer = seed.cust
       /\ orders = seed.ord
       /\ consumedFor = seed.proof
  /\ pc = [r \in Reqs |-> "idle"]
  /\ loc = [r \in Reqs |-> NoLoc]
  /\ tx = [r \in Reqs |-> NoTx]
  /\ resp = [r \in Reqs |-> NoResp]
  /\ borrowed = {}
  /\ lost = 0

\* ---- Common steps ----

Rollback_KeepsLocks(r) ==
  /\ tx' = [tx EXCEPT ![r].upd = {}, ![r].cvNew = {}, ![r].custNew = {}, ![r].ordNew = {}]
  /\ borrowed' = borrowed \ {r}

\* conn.rollback() followed by cursor.close() and conn.close(): the writes and
\* locks of r are discarded and its connection goes back to the pool.
Rollback(r) ==
  /\ tx' = [tx EXCEPT ![r] = NoTx]
  /\ borrowed' = borrowed \ {r}

Respond(r, status, error, sent) ==
  /\ resp' = [resp EXCEPT ![r] = [NoResp EXCEPT !.status = status, !.error = error,
                                                 !.email_sent = sent]]
  /\ pc' = [pc EXCEPT ![r] = "done"]

\* The answers that carry {"error": ..., "details": str(exc)}.
RespondDetails(r, status, error, details) ==
  /\ resp' = [resp EXCEPT ![r] = [NoResp EXCEPT !.status = status, !.error = error,
                                                 !.details = details]]
  /\ pc' = [pc EXCEPT ![r] = "done"]

\* What is left of a request once it has answered.
Forget(r) ==
  loc' = [loc EXCEPT ![r] = [NoLoc EXCEPT !.op = loc[r].op, !.email = loc[r].email,
                                          !.code = loc[r].code, !.code_row = loc[r].code_row,
                                          !.order_id = loc[r].order_id,
                                          !.during = loc[r].during]]

\* A request that arrives is served by the first free worker.
InFlight == { q \in Reqs : pc[q] \notin {"idle", "done"} }

Arrives(r) ==
  /\ pc[r] \in {"idle", "done"}
  /\ started < load.requests
  /\ \A q \in Reqs : q < r => q \in InFlight
  /\ Cardinality(InFlight) < load.inflight
  /\ started' = started + 1

Tick ==
  /\ now < MaxTime
  /\ now' = now + 1
  /\ UNCHANGED <<code_verify, customer, orders, pc, loc, tx, resp, borrowed, consumedFor, load, started, lost>>

\* A per-worker variable once a request arrives: the workers that have
\* answered are idle again.
Cleared(f, blank) == [q \in Reqs |-> IF q \in InFlight THEN f[q] ELSE blank]

\* Worker r takes a request: its locals are those of a fresh call.  The field
\* during records the workers whose requests were in progress when it arrived.
Accept(r, fresh) ==
  loc' = [q \in Reqs |->
            IF q = r THEN [fresh EXCEPT !.during = InFlight]
            ELSE IF q \in InFlight THEN [loc[q] EXCEPT !.during = @ \ {r}]
            ELSE NoLoc]

\* The answer of a request that ends where it starts.
RespondAtOnce(r, status, error, details) ==
  /\ resp' = [Cleared(resp, NoResp) EXCEPT ![r] = [NoResp EXCEPT !.status = status,
                                                                  !.error = error,
                                                                  !.details = details]]
  /\ pc' = [Cleared(pc, "idle") EXCEPT ![r] = "done"]

\* str(exc) of a MySQLError other than the duplicate-key error of the retry
\* loops, raised by a statement, by start_transaction() or commit(), or while
\* the connection is opened.
DbFailure == "MySQLError"

\* db_pool.get_connection() and conn.cursor(), both before the try block: a
\* MySQLError raised by either is answered by db_error_handler.  When cursor()
\* raises, the connection has left the pool and no finally block returns it.
Opens == {"ok", "get_connection", "cursor"}

Open(r, how, first) ==
  IF how = "ok"
  THEN /\ pc' = [Cleared(pc, "idle") EXCEPT ![r] = first]
       /\ borrowed' = borrowed \cup {r}
       /\ resp' = [Cleared(resp, NoResp) EXCEPT ![r] = NoResp]
       /\ UNCHANGED lost
  ELSE /\ RespondAtOnce(r, 500, "Database error", DbFailure)
       /\ lost' = IF how = "cursor" THEN lost + 1 ELSE lost
       /\ UNCHANGED borrowed

\* ---- POST /api/orders/request-code ----

\* The payload is read and validated, a connection borrowed, the transaction started.
RcStart(r) ==
  /\ Arrives(r)
  /\ \E raw \in load.emails :
       LET email == normalize_email(raw) IN
       /\ Accept(r, [NoLoc EXCEPT !.op = "request", !.email = email])
       /\ IF ~is_valid_email(email)
          THEN /\ RespondAtOnce(r, 400, "Valid email is required.", "")
               /\ UNCHANGED <<borrowed, lost>>
          ELSE \E how \in Opens : Open(r, how, "rc_update")
  /\ UNCHANGED <<now, code_verify, customer, orders, tx, consumedFor, load>>

RcUpdate_NoSupersede(r) ==
  /\ pc[r] = "rc_update"
  /\ pc' = [pc EXCEPT ![r] = "rc_insert"]
  /\ UNCHANGED <<now, code_verify, customer, orders, loc, tx, resp, borrowed, consumedFor, load, started, lost>>

\* UPDATE code_verify SET status = 2 WHERE identifier = %s AND status = 0
RcUpdate(r) ==
  /\ pc[r] = "rc_update"
  /\ ~Waits(r, { x \in Scanned(r) : x.identifier = loc[r].email /\ x.status = Pending })
  /\ LET hit == { x.id : x \in { x \in CvView(r) : x.identifier = loc[r].email /\ x.status = Pending } } IN
       tx' = [tx EXCEPT ![r].upd = SetStatus(@, hit, Superseded), ![r].locks = @ \cup hit]
  /\ pc' = [pc EXCEPT ![r] = "rc_insert"]
  /\ UNCHANGED <<now, code_verify, customer, orders, loc, resp, borrowed, consumedFor, load, started, lost>>

InLoop_OneMore(r) == loc[r].attempts < MaxAttempts + 1

\* "for _ in range(8)": another pass of the loop is left.
InLoop(r) == loc[r].attempts < MaxAttempts

\* The uniqueness constraint of code_verify: a code is unique among the
\* challenges that are still pending.
CodeCollides(r, code) == \E row \in CvView(r) : row.code = code /\ row.status = Pending

\* An INSERT of a key that another open transaction has inserted waits for it.
CodeInsertWaits(r, code) ==
  \E q \in Reqs \ {r} : \E row \in tx[q].cvNew : row.code = code

\* The row request_order_code inserts: status 0 and expires_at NULL.
NewChallenge(id, email, code, t) ==
  [id |-> id, identifier |-> email, code |-> code, status |-> Pending,
   expires_at |-> NULL, created_at |-> t, issued |-> TRUE]

\* One pass of "for _ in range(8)": generate_otp_code and the INSERT.
RcInsert(r) ==
  /\ pc[r] = "rc_insert"
  /\ InLoop(r)
  /\ \E code \in Codes :
       /\ ~CodeInsertWaits(r, code)
       /\ IF CodeCollides(r, code)
          THEN /\ loc' = [loc EXCEPT ![r].attempts = @ + 1]
               /\ UNCHANGED <<tx, pc>>
          ELSE /\ tx' = [tx EXCEPT ![r].cvNew = @ \cup {NewChallenge(nextId.cv, loc[r].email, code, now)},
                                   ![r].locks = @ \cup {nextId.cv}]
               /\ loc' = [loc EXCEPT ![r].code = code, ![r].attempts = 0]
               /\ pc' = [pc EXCEPT ![r] = "rc_commit"]
  /\ UNCHANGED <<now, code_verify, customer, orders, resp, borrowed, consumedFor, load, started, lost>>

\* The else branch of the loop: RuntimeError, caught by "except Exception".
RcExhausted(r) ==
  /\ pc[r] = "rc_insert"
  /\ ~InLoop(r)
  /\ Rollback(r)
  /\ RespondDetails(r, 500, "Failed to generate verification code.",
                      "Could not generate a unique verification code.")
  /\ Forget(r)
  /\ UNCHANGED <<now, code_verify, customer, orders, consumedFor, load, started, lost>>

RcDbError_Commits(r) ==
  /\ pc[r] \in {"rc_update", "rc_insert", "rc_commit"}
  /\ pc[r] = "rc_insert" => InLoop(r)
  /\ code_verify' = CommittedCv(r)
  /\ Rollback(r)
  /\ RespondDetails(r, 500, "Failed to generate verification code.", DbFailure)
  /\ loc' = [loc EXCEPT ![r] = [NoLoc EXCEPT !.op = loc[r].op, !.email = loc[r].email,
                                          !.during = loc[r].during]]
  /\ UNCHANGED <<now, customer, orders, consumedFor, load, started, lost>>

\* "except Exception" of request_order_code on a failed statement or commit.
RcDbError(r) ==
  /\ pc[r] \in {"rc_update", "rc_insert", "rc_commit"}
  /\ pc[r] = "rc_insert" => InLoop(r)
  /\ Rollback(r)
  /\ RespondDetails(r, 500, "Failed to generate verification code.", DbFailure)
  /\ loc' = [loc EXCEPT ![r] = [NoLoc EXCEPT !.op = loc[r].op, !.email = loc[r].email,
                                          !.during = loc[r].during]]
  /\ UNCHANGED <<now, code_verify, customer, orders, consumedFor, load, started, lost>>

\* conn.commit(), then the finally block.
RcCommit(r) ==
  /\ pc[r] = "rc_commit"
  /\ code_verify' = CommittedCv(r)
  /\ tx' = [tx EXCEPT ![r] = NoTx]
  /\ borrowed' = borrowed \ {r}
  /\ pc' = [pc EXCEPT ![r] = "rc_email"]
  /\ UNCHANGED <<now, customer, orders, loc, resp, consumedFor, load, started, lost>>

\* send_html_email after the transaction; its failure is a 500.
RcEmail(r) ==
  /\ pc[r] = "rc_email"
  /\ \E sent \in BOOLEAN :
       IF sent
       THEN Respond(r, 200, "", TRUE)
       ELSE RespondDetails(r, 500, "Failed to send verification email.", "SMTPException")
  /\ Forget(r)
  /\ UNCHANGED <<now, code_verify, customer, orders, tx, borrowed, consumedFor, load, started, lost>>

\* ---- POST /api/orders/verify-and-create ----

\* The payload checks before the transaction, in the order of the handler.
PayloadError(email, code, items) ==
  IF ~is_valid_email(email) THEN "Valid email is required."
  ELSE IF code = BadCode THEN "A valid 4-digit verification code is required."
  ELSE IF items = << >> THEN "At least one cart item is required."
  ELSE "none"

\* The handler looks at the entries of a non-empty cart only after the
\* challenge is found; until then the model keeps the cart as Unread and
\* draws its entries where the menu_ids loop reads them.
Unread == <<Line(JNone, JNone)>>

VcStart(r) ==
  /\ Arrives(r)
  /\ \E raw \in RawEmails, code \in SentCodes \cup {BadCode}, items \in {<< >>, Unread} :
       LET email == normalize_email(raw)
           error == PayloadError(email, code, items) IN
       IF error # "none"
       THEN /\ Accept(r, [NoLoc EXCEPT !.op = "verify"])
            /\ RespondAtOnce(r, 400, error, "")
            /\ UNCHANGED <<borrowed, lost>>
       ELSE \E how \in Opens :
            /\ Accept(r, [NoLoc EXCEPT !.op = "verify", !.email = email, !.code = code,
                                        !.items = IF how = "ok" THEN items ELSE << >>])
            /\ Open(r, how, "vc_expire")
  /\ UNCHANGED <<now, code_verify, customer, orders, tx, consumedFor, load>>

\* UPDATE code_verify SET status = 2
\* WHERE identifier = %s AND status = 0 AND expires_at <= NOW()
VcExpire(r) ==
  /\ pc[r] = "vc_expire"
  /\ ~Waits(r, { x \in Scanned(r) : /\ x.identifier = loc[r].email
                                      /\ x.status = Pending
                                      /\ SqlLe(x.expires_at, now) })
  /\ LET hit == { x.id : x \in { x \in CvView(r) : /\ x.identifier = loc[r].email
                                                 /\ x.status = Pending
                                                 /\ SqlLe(x.expires_at, now) } } IN
       tx' = [tx EXCEPT ![r].upd = SetStatus(@, hit, Superseded), ![r].locks = @ \cup hit]
  /\ pc' = [pc EXCEPT ![r] = "vc_select"]
  /\ UNCHANGED <<now, code_verify, customer, orders, loc, resp, borrowed, consumedFor, load, started, lost>>

CodeRows_AnyEmail(r) ==
  { x \in CvView(r) : /\ x.code = loc[r].code
                      /\ x.status = Pending
                      /\ SqlGt(x.expires_at, now) }

\* The rows the SELECT ... FOR UPDATE of the challenge matches.
CodeRows(r) ==
  { x \in CvView(r) : /\ x.identifier = loc[r].email
                      /\ x.code = loc[r].code
                      /\ x.status = Pending
                      /\ SqlGt(x.expires_at, now) }

\* SELECT id ... ORDER BY created_at DESC LIMIT 1 FOR UPDATE; no row: rollback and 400.
ForUpdateWaits_NoLock(r) == FALSE

\* FOR UPDATE: the SELECT waits while another transaction holds a row it matches.
ForUpdateWaits(r) ==
  Waits(r, { x \in Scanned(r) : /\ x.identifier = loc[r].email
                                /\ x.code = loc[r].code
                                /\ x.status = Pending
                                /\ SqlGt(x.expires_at, now) })

VcSelect(r) ==
  /\ pc[r] = "vc_select"
  /\ ~ForUpdateWaits(r)
  /\ IF CodeRows(r) = {}
     THEN /\ Rollback(r)
          /\ Respond(r, 400, "Verification code is invalid or expired.", FALSE)
          /\ Forget(r)
     ELSE /\ \E code_row \in CodeRows(r) :
               /\ \A x \in CodeRows(r) : x.created_at <= code_row.created_at
               /\ loc' = [loc EXCEPT ![r].code_row = code_row.id, ![r].at = now]
               /\ tx' = [tx EXCEPT ![r].locks = @ \cup {code_row.id}]
          /\ pc' = [pc EXCEPT ![r] = "vc_cart"]
          /\ UNCHANGED <<resp, borrowed>>
  /\ UNCHANGED <<now, code_verify, customer, orders, consumedFor, load, started, lost>>

\* What is left of a request turned down for its cart: Forget, with the cart
\* it sent.
ForgetButCart(r, raw_items) ==
  loc' = [loc EXCEPT ![r] = [NoLoc EXCEPT !.op = loc[r].op, !.email = loc[r].email,
                                          !.code = loc[r].code, !.code_row = loc[r].code_row,
                                          !.items = raw_items,
                                          !.during = loc[r].during]]

\* The first cart entry the menu_ids loop cannot read, 0 when it reads them all.
FirstUnreadable(raw_items) ==
  LET bad == { i \in 1..Len(raw_items) : ~raw_items[i].obj \/ ~IntOk(raw_items[i].id) } IN
  IF bad = {} THEN 0 ELSE CHOOSE i \in bad : \A j \in bad : i <= j

\* The menu_ids loop, the SELECT on menu and build_order_items.
VcCart(r) ==
  /\ pc[r] = "vc_cart"
  /\ \E raw_items \in Carts \ {<< >>} :
     LET first == FirstUnreadable(raw_items)
         menu_ids == { IntVal(raw_items[i].id) : i \in 1..Len(raw_items) }
         built == build_order_items(MenuMap(menu_ids), raw_items) IN
       IF first # 0 /\ ~raw_items[first].obj
       THEN /\ Rollback(r)
            /\ RespondDetails(r, 500, "Failed to create order.", "AttributeError")
            /\ ForgetButCart(r, raw_items)
       ELSE IF first # 0
       THEN /\ Rollback(r)
            /\ Respond(r, 400, "Invalid menu item in cart.", FALSE)
            /\ ForgetButCart(r, raw_items)
       ELSE IF built.err # "none"
       THEN /\ Rollback(r)
            /\ Respond(r, 400, built.err, FALSE)
            /\ ForgetButCart(r, raw_items)
       ELSE IF built.items = << >>
       THEN /\ Rollback(r)
            /\ Respond(r, 400, "No valid items in cart.", FALSE)
            /\ ForgetButCart(r, raw_items)
       ELSE /\ loc' = [loc EXCEPT ![r].items = raw_items, ![r].order_items = built.items,
                                   ![r].order_total = built.total]
            /\ pc' = [pc EXCEPT ![r] = "vc_customer"]
            /\ UNCHANGED <<tx, resp, borrowed>>
  /\ UNCHANGED <<now, code_verify, customer, orders, consumedFor, load, started, lost>>

MostRecent_Oldest(found) == CHOOSE c \in found : \A d \in found : c.id <= d.id

\* ORDER BY id DESC LIMIT 1
MostRecent(found) == CHOOSE c \in found : \A d \in found : d.id <= c.id

\* SELECT id FROM customer WHERE email = %s ORDER BY id DESC LIMIT 1, else INSERT.
VcCustomer(r) ==
  /\ pc[r] = "vc_customer"
  /\ LET found == { c \in customer \cup tx[r].custNew : c.email = loc[r].email } IN
       IF found # {}
       THEN /\ loc' = [loc EXCEPT ![r].customer_id = MostRecent(found).id]
            /\ UNCHANGED tx
       ELSE /\ tx' = [tx EXCEPT ![r].custNew = @ \cup {[id |-> nextId.cust, email |-> loc[r].email]}]
            /\ loc' = [loc EXCEPT ![r].customer_id = nextId.cust]
  /\ pc' = [pc EXCEPT ![r] = "vc_consume"]
  /\ UNCHANGED <<now, code_verify, customer, orders, resp, borrowed, consumedFor, load, started, lost>>

\* UPDATE code_verify SET status = 1, used_at = NOW() WHERE id = %s
VcConsume(r) ==
  /\ pc[r] = "vc_consume"
  /\ tx' = [tx EXCEPT ![r].upd = SetStatus(@, {loc[r].code_row}, Consumed)]
  /\ pc' = [pc EXCEPT ![r] = "vc_insert"]
  /\ UNCHANGED <<now, code_verify, customer, orders, loc, resp, borrowed, consumedFor, load, started, lost>>

RefCollides_Never(r, ref_num) == FALSE

\* orders.ref_num is unique: the INSERT fails with errno 1062 on a stored ref_num.
RefCollides(r, ref_num) == \E o \in orders \cup tx[r].ordNew : o.ref_num = ref_num

RefInsertWaits(r, ref_num) ==
  \E q \in Reqs \ {r} : \E o \in tx[q].ordNew : o.ref_num = ref_num

NewOrder(id, ref_num, customer_id, amount, items) ==
  [id |-> id, ref_num |-> ref_num, customer_id |-> customer_id, amount |-> amount,
   items |-> items, status |-> StatusPending]

\* One pass of "for _ in range(8)": generate_ref_num and the INSERT INTO orders.
VcInsert(r) ==
  /\ pc[r] = "vc_insert"
  /\ InLoop(r)
  /\ \E ref_num \in RefNums :
       /\ ~RefInsertWaits(r, ref_num)
       /\ IF RefCollides(r, ref_num)
          THEN /\ loc' = [loc EXCEPT ![r].attempts = @ + 1]
               /\ UNCHANGED <<tx, pc>>
          ELSE /\ tx' = [tx EXCEPT ![r].ordNew = @ \cup
                           {NewOrder(nextId.ord, ref_num, loc[r].customer_id,
                                     loc[r].order_total, loc[r].order_items)}]
               /\ loc' = [loc EXCEPT ![r].ref_num = ref_num, ![r].order_id = nextId.ord]
               /\ pc' = [pc EXCEPT ![r] = "vc_commit"]
  /\ UNCHANGED <<now, code_verify, customer, orders, resp, borrowed, consumedFor, load, started, lost>>

\* "if not order_id: raise RuntimeError", caught by "except Exception".
VcExhausted(r) ==
  /\ pc[r] = "vc_insert"
  /\ ~InLoop(r)
  /\ Rollback(r)
  /\ RespondDetails(r, 500, "Failed to create order.", "Could not create order reference number.")
  /\ Forget(r)
  /\ UNCHANGED <<now, code_verify, customer, orders, consumedFor, load, started, lost>>

VcDbError_Retries(r) ==
  /\ pc[r] \in {"vc_expire", "vc_select", "vc_cart", "vc_customer", "vc_consume",
                "vc_insert", "vc_commit"}
  /\ pc[r] = "vc_insert" => InLoop(r)
  /\ IF pc[r] = "vc_insert"
     THEN /\ loc' = [loc EXCEPT ![r].attempts = @ + 1]
          /\ UNCHANGED <<tx, borrowed, resp, pc>>
     ELSE /\ Rollback(r)
          /\ RespondDetails(r, 500, "Failed to create order.", DbFailure)
          /\ loc' = [loc EXCEPT ![r] = [NoLoc EXCEPT !.op = loc[r].op, !.email = loc[r].email,
                                                  !.code = loc[r].code, !.during = loc[r].during]]
  /\ UNCHANGED <<now, code_verify, customer, orders, consumedFor, load, started, lost>>

\* "except Exception" of verify_and_create_order on a failed statement or commit.
VcDbError(r) ==
  /\ pc[r] \in {"vc_expire", "vc_select", "vc_cart", "vc_customer", "vc_consume",
                "vc_insert", "vc_commit"}
  /\ pc[r] = "vc_insert" => InLoop(r)
  /\ Rollback(r)
  /\ RespondDetails(r, 500, "Failed to create order.", DbFailure)
  /\ loc' = [loc EXCEPT ![r] = [NoLoc EXCEPT !.op = loc[r].op, !.email = loc[r].email,
                                          !.code = loc[r].code, !.during = loc[r].during]]
  /\ UNCHANGED <<now, code_verify, customer, orders, consumedFor, load, started, lost>>

VcCommit_KeepsConnection(r) ==
  /\ pc[r] = "vc_commit"
  /\ code_verify' = CommittedCv(r)
  /\ customer' = customer \cup tx[r].custNew
  /\ orders' = orders \cup tx[r].ordNew
  /\ consumedFor' = consumedFor \cup
       { [order |-> loc[r].order_id, challenge |-> loc[r].code_row,
          email |-> loc[r].email, code |-> loc[r].code, at |-> loc[r].at] }
  /\ tx' = [tx EXCEPT ![r] = NoTx]
  /\ loc' = [loc EXCEPT ![r].attempts = 0, ![r].customer_id = 0]
  /\ pc' = [pc EXCEPT ![r] = "vc_email"]
  /\ UNCHANGED <<now, resp, borrowed, load, started, lost>>

\* conn.commit(), then the finally block.
VcCommit(r) ==
  /\ pc[r] = "vc_commit"
  /\ code_verify' = CommittedCv(r)
  /\ customer' = customer \cup tx[r].custNew
  /\ orders' = orders \cup tx[r].ordNew
  /\ consumedFor' = consumedFor \cup
       { [order |-> loc[r].order_id, challenge |-> loc[r].code_row,
          email |-> loc[r].email, code |-> loc[r].code, at |-> loc[r].at] }
  /\ tx' = [tx EXCEPT ![r] = NoTx]
  /\ borrowed' = borrowed \ {r}
  /\ loc' = [loc EXCEPT ![r].attempts = 0, ![r].customer_id = 0]
  /\ pc' = [pc EXCEPT ![r] = "vc_email"]
  /\ UNCHANGED <<now, resp, load, started, lost>>

VcEmail_FailureIsError(r) ==
  /\ pc[r] = "vc_email"
  /\ \E sent \in BOOLEAN :
       IF sent
       THEN Respond(r, 200, "", TRUE)
       ELSE RespondDetails(r, 500, "Failed to send confirmation email.", "SMTPException")
  /\ Forget(r)
  /\ UNCHANGED <<now, code_verify, customer, orders, tx, borrowed, consumedFor, load, started, lost>>

\* send_html_email after the transaction; its failure only fills email_error.
VcEmail(r) ==
  /\ pc[r] = "vc_email"
  /\ \E sent \in BOOLEAN :
       IF sent
       THEN Respond(r, 200, "", TRUE)
       ELSE Respond(r, 200, "email_error", FALSE)
  /\ Forget(r)
  /\ UNCHANGED <<now, code_verify, customer, orders, tx, borrowed, consumedFor, load, started, lost>>

\* ---- GET /api/orders/<ref_num> ----

\* The references a client asks for; 0 is a reference that is blank once stripped.
TrackRefs == RefNums \cup {0}

TkStart(r) ==
  /\ Arrives(r)
  /\ \E ref_num \in TrackRefs :
       /\ Accept(r, [NoLoc EXCEPT !.op = "track", !.ref_num = ref_num])
       /\ IF ref_num = 0
          THEN /\ RespondAtOnce(r, 400, "Order reference is required.", "")
               /\ UNCHANGED <<borrowed, lost>>
          ELSE \E how \in Opens : Open(r, how, "tk_select")
  /\ UNCHANGED <<now, code_verify, customer, orders, tx, consumedFor, load>>

\* The 200 answer of get_order_tracking for the row it selected.
RespondTracking(r, row) ==
  LET status_key == normalize_tracking_status(row.status) IN
  /\ resp' = [resp EXCEPT ![r] = [NoResp EXCEPT !.status = 200,
                                                 !.order_number = row.ref_num,
                                                 !.db_status = row.status,
                                                 !.order_status = status_key,
                                                 !.current_index = CurrentIndex(status_key),
                                                 !.is_cancelled = (status_key = "cancelled")]]
  /\ pc' = [pc EXCEPT ![r] = "done"]

\* The SELECT inside try/finally, then the answer; a MySQLError of the SELECT
\* passes the finally block and is answered by db_error_handler.
TkSelect(r) ==
  /\ pc[r] = "tk_select"
  /\ borrowed' = borrowed \ {r}
  /\ \E ok \in BOOLEAN :
       LET rows == { o \in orders : o.ref_num = loc[r].ref_num } IN
       IF ~ok THEN RespondDetails(r, 500, "Database error", DbFailure)
       ELSE IF rows = {} THEN Respond(r, 404, "Order not found.", FALSE)
       ELSE \E row \in rows : RespondTracking(r, row)
  /\ Forget(r)
  /\ UNCHANGED <<now, code_verify, customer, orders, tx, consumedFor, load, started, lost>>

Next ==
  \/ Tick
  \/ \E r \in Reqs :
       \/ RcStart(r) \/ RcUpdate(r) \/ RcInsert(r) \/ RcExhausted(r) \/ RcDbError(r)
       \/ RcCommit(r) \/ RcEmail(r)
       \/ VcStart(r) \/ VcExpire(r) \/ VcSelect(r) \/ VcCart(r) \/ VcCustomer(r)
       \/ VcConsume(r) \/ VcInsert(r) \/ VcExhausted(r) \/ VcDbError(r)
       \/ VcCommit(r) \/ VcEmail(r)
       \/ TkStart(r) \/ TkSelect(r)

\* The tracking handler alone.
NextTrack == \E r \in Reqs : TkStart(r) \/ TkSelect(r)

\* The requests of a run: how many arrive, how many may be in progress at
\* once, and the emails codes are requested for.  The concurrent runs request
\* codes for one identifier, so that the requests contend; the sequential runs
\* for every identifier.  verify-and-create names any of them in both.
OneIdentifier == { e \in RawEmails : normalize_email(e) # "b" }

Init == InitDb /\ load = [requests |-> MaxReqs, inflight |-> Cardinality(Reqs),
                          emails |-> OneIdentifier]

InitSeq == InitDb /\ load = [requests |-> MaxSeq, inflight |-> 1, emails |-> RawEmails]

\* One order of any stored status, read by tracking requests.
InitTrack ==
  /\ now = 0
  /\ started = 0
  /\ code_verify = {}
  /\ customer = { [id |-> 1, email |-> "a"] }
  /\ \E db_status \in RawStatuses :
       orders = { [NewOrder(1, 1, 1, 1000, <<OrderItem(MenuRow(menu, 1), 2)>>)
                     EXCEPT !.status = db_status] }
  /\ consumedFor = {}
  /\ pc = [r \in Reqs |-> "idle"]
  /\ loc = [r \in Reqs |-> NoLoc]
  /\ tx = [r \in Reqs |-> NoTx]
  /\ resp = [r \in Reqs |-> NoResp]
  /\ borrowed = {}
  /\ lost = 0
  /\ load = [requests |-> MaxSeq, inflight |-> Cardinality(Reqs), emails |-> RawEmails]

Spec == Init /\ [][Next]_vars

SpecTrack == InitTrack /\ [][NextTrack]_vars

SpecSeq == InitSeq /\ [][Next]_vars

\* ---- Properties ----

InvalidCode == "Verification code is invalid or expired."

CartErrors ==
  { "Invalid menu item in cart.", "Invalid menu item payload.", "Quantity must be at least 1.",
    "Menu item is unavailable.", "No valid items in cart." }

Exhausted == "Could not create order reference number."

Answered(r) == pc[r] = "done"

IsVerify(r) == loc[r].op = "verify"

\* The requests of r and q were in progress at the same time.
Raced(r, q) == r \in loc[q].during \/ q \in loc[r].during

\* r was not turned down for its cart.
CartOk(r) == resp[r].error \notin CartErrors /\ resp[r].details # "AttributeError"

\* Two answered verify-and-create requests that raced with the same (email,
\* code) and carts that are valid, r having found the challenge pending and unexpired.
SameCodeRace(r, q) ==
  /\ r # q /\ Answered(r) /\ Answered(q) /\ IsVerify(r) /\ IsVerify(q)
  /\ Raced(r, q)
  /\ loc[r].email = loc[q].email /\ loc[r].code = loc[q].code
  /\ loc[r].code_row # 0
  /\ CartOk(r) /\ CartOk(q)

Challenge(k) == CHOOSE c \in code_verify : c.id = k

\* A worker between its SELECT ... FOR UPDATE and the end of its transaction.
Holding(r) == pc[r] \in {"vc_cart", "vc_customer", "vc_consume", "vc_insert", "vc_commit"}

\* The order o has its consumed challenge: matching the request, unexpired when verified.
HasConsumedCode(o) ==
  \E p \in consumedFor :
    /\ p.order = o.id
    /\ \A p2 \in consumedFor : p2.order = o.id => p2 = p
    /\ \E c \in code_verify :
         /\ c.id = p.challenge
         /\ c.status = Consumed
         /\ c.identifier = p.email
         /\ c.code = p.code
         /\ SqlGt(c.expires_at, p.at)
    /\ \E cu \in customer : cu.id = o.customer_id /\ cu.email = p.email

\* The challenges a step moves to consumed.
NewlyConsumed ==
  { c \in code_verify : \E d \in code_verify' : d.id = c.id /\ d.status = Consumed /\ c.status # Consumed }

\* C2: every committed order row was written by a transaction that also moved
\* exactly one challenge from pending to consumed, that challenge matching the
\* request's (email, code) and unexpired when it was verified; no order exists
\* without such a consumed challenge.
C2_OrderNeedsConsumedCode ==
  /\ [](\A o \in orders : HasConsumedCode(o))
  /\ [][orders' # orders =>
          /\ Cardinality(orders' \ orders) = 1
          /\ Cardinality(NewlyConsumed) = 1
          /\ \A c \in NewlyConsumed : c.status = Pending]_vars

C2_Witness ==
  \E r \in Reqs : \E o \in orders :
    /\ IsVerify(r) /\ pc[r] \in {"vc_email", "done"}
    /\ o.id = loc[r].order_id
    /\ HasConsumedCode(o)

\* C3: each identifier has at most one challenge in status pending in the
\* committed state.
C3_AtMostOnePending ==
  \A e \in Emails :
    Cardinality({ c \in code_verify : c.identifier = e /\ c.status = Pending }) <= 1

\* The code of request r matches challenges of its email, none of them the
\* newest one issued for that email.
OlderCode(r) ==
  LET mine == { c \in code_verify : c.identifier = loc[r].email /\ c.code = loc[r].code } IN
  /\ mine # {}
  /\ \A c \in mine : \E d \in code_verify : d.identifier = c.identifier /\ d.id > c.id /\ d.issued

\* Once request-code has issued a newer code for an email, the earlier
\* challenge is no longer pending, verify-and-create with the earlier code
\* fails with the invalid-or-expired error, and a verify-and-create that holds
\* a challenge holds the newest one of its email.
OlderCodeRejected ==
  /\ [](\A c, d \in code_verify :
          c.identifier = d.identifier /\ c.id < d.id /\ d.issued => c.status # Pending)
  /\ [](\A r \in Reqs : Holding(r) =>
          \A c \in code_verify : c.identifier = loc[r].email => c.id <= loc[r].code_row)
  /\ [][\A r \in Reqs :
          pc[r] = "vc_select" /\ pc'[r] # "vc_select" /\ OlderCode(r)
            => /\ pc'[r] = "done" /\ orders' = orders
               /\ resp'[r].details # DbFailure => resp'[r].error = InvalidCode]_vars

OlderCodeTried ==
  \E r \in Reqs : \E c, d \in code_verify :
    /\ IsVerify(r) /\ Answered(r) /\ resp[r].error = InvalidCode
    /\ c.issued /\ d.issued
    /\ c.identifier = loc[r].email /\ d.identifier = loc[r].email
    /\ c.id < d.id
    /\ c.code = loc[r].code /\ d.code # loc[r].code
    /\ c.status = Superseded /\ d.status = Pending

\* The code of request r is the newest one issued for its email, still pending
\* and inside the 300 s window that request-code announced.
NewestCode(r) ==
  \E c \in code_verify :
    /\ c.identifier = loc[r].email /\ c.code = loc[r].code
    /\ c.issued /\ c.status = Pending
    /\ now < c.created_at + ExpiresInSeconds
    /\ \A d \in code_verify : d.identifier = c.identifier => d.id <= c.id

\* C4: after request-code has issued c1 and then c2 for an email, only c2 can
\* succeed: verify-and-create with the older code fails with the
\* invalid-or-expired error, and verify-and-create with the newest code, inside
\* its window, passes verification.
C4_OnlyNewestCode ==
  /\ OlderCodeRejected
  /\ [][\A r \in Reqs :
          pc[r] = "vc_select" /\ pc'[r] # "vc_select" /\ NewestCode(r)
            => pc'[r] = "vc_cart" \/ resp'[r].details = DbFailure]_vars

\* C5: request-code persists the new pending challenge with an expiry
\* timestamp equal to its issuance time plus the 300 s window.
C5_ExpiryFiveMinutes ==
  \A c \in code_verify : c.issued => c.expires_at = c.created_at + ExpiresInSeconds

\* The code of request r matches pending challenges of its email, all of them
\* at or past their expiry.
ExpiredOnly(r) ==
  LET mine == { c \in code_verify : /\ c.identifier = loc[r].email
                                    /\ c.code = loc[r].code
                                    /\ c.status = Pending } IN
  /\ mine # {}
  /\ \A c \in mine : c.expires_at # NULL /\ c.expires_at <= now

\* C6: a verify-and-create whose (email, code) matches a pending challenge at
\* or past its expiry fails with the invalid-or-expired error (with a server
\* error when the database itself fails) and creates no order; a challenge
\* that is held was unexpired when it was selected.
C6_ExpiredCodeFails ==
  /\ [](\A r \in Reqs : Holding(r) => Challenge(loc[r].code_row).expires_at > loc[r].at)
  /\ [][\A r \in Reqs :
          pc[r] = "vc_select" /\ pc'[r] # "vc_select" /\ ExpiredOnly(r)
            => /\ pc'[r] = "done"
               /\ orders' = orders
               /\ resp'[r].details # DbFailure =>
                    resp'[r].status = 400 /\ resp'[r].error = InvalidCode]_vars

C6_Witness ==
  \E r \in Reqs : \E c \in code_verify :
    /\ IsVerify(r) /\ Answered(r) /\ resp[r].error = InvalidCode
    /\ c.identifier = loc[r].email /\ c.code = loc[r].code
    /\ c.status = Pending /\ c.expires_at # NULL /\ c.expires_at <= now
    /\ \A p \in consumedFor : p.challenge # c.id

\* C7: a verify-and-create that fails inside the transaction on its code or
\* its cart leaves the committed tables as they were and releases what it
\* held: no order row, no customer row, the challenge still pending and free
\* for a later request.
C7_FailedVerifyRollsBack ==
  [][\A r \in Reqs :
       pc[r] \in {"vc_select", "vc_cart"} /\ pc'[r] = "done"
         => /\ code_verify' = code_verify
            /\ orders' = orders
            /\ customer' = customer
            /\ tx'[r] = NoTx
            /\ pc[r] = "vc_cart" => Challenge(loc[r].code_row).status = Pending]_vars

C7_Witness ==
  \E r, q \in Reqs :
    /\ r # q /\ IsVerify(r) /\ IsVerify(q) /\ Answered(r) /\ Answered(q)
    /\ resp[r].status = 400 /\ resp[r].error \in CartErrors
    /\ resp[q].status = 200
    /\ loc[r].code_row # 0 /\ loc[r].code_row = loc[q].code_row

MenuPrice(i) == (CHOOSE m \in menu : m.id = i).price

RECURSIVE SumLines(_, _)
SumLines(items, n) == IF n = 0 THEN 0 ELSE SumLines(items, n - 1) + items[n].line_total

\* amount is the sum of the lines, each line the catalog price times its quantity.
PricedFromCatalog(items, amount) ==
  /\ Len(items) >= 1
  /\ amount = SumLines(items, Len(items))
  /\ \A i \in 1..Len(items) :
       /\ \E m \in menu : m.id = items[i].id /\ m.is_available = 1
       /\ items[i].price = MenuPrice(items[i].id)
       /\ items[i].qty >= 1
       /\ items[i].line_total = MenuPrice(items[i].id) * items[i].qty

\* The lines are those of the cart, entry by entry.
FromCart(raw_items, items) ==
  /\ Len(items) = Len(raw_items)
  /\ \A i \in 1..Len(items) :
       items[i].id = IntVal(raw_items[i].id) /\ items[i].qty = IntVal(raw_items[i].qty)

Priced(r) == pc[r] \in {"vc_customer", "vc_consume", "vc_insert", "vc_commit"}

\* C8: for every accepted cart the order amount is the exact sum over the cart
\* lines of catalog unit price times quantity, every line total of the
\* snapshot is unit price times quantity, and nothing the client sends beside
\* id and quantity influences them.
C8_AmountFromCatalog ==
  /\ \A o \in orders : PricedFromCatalog(o.items, o.amount)
  /\ \A r \in Reqs : Priced(r) =>
       /\ FromCart(loc[r].items, loc[r].order_items)
       /\ PricedFromCatalog(loc[r].order_items, loc[r].order_total)
       /\ \A o \in tx[r].ordNew : o.items = loc[r].order_items /\ o.amount = loc[r].order_total

C8_Witness ==
  \E r \in Reqs : \E o \in orders :
    /\ IsVerify(r) /\ Answered(r) /\ resp[r].status = 200
    /\ o.id = loc[r].order_id
    /\ Len(o.items) = 2
    /\ o.amount = 1550

\* C9: reference numbers of committed orders are pairwise distinct, and a
\* verify-and-create whose insert collided fewer than 8 times leaves the loop
\* with exactly one order row, under a reference number no stored order has.
C9_RefNumsDistinct ==
  /\ \A o1, o2 \in orders : o1.ref_num = o2.ref_num => o1 = o2
  /\ \A r \in Reqs : pc[r] = "vc_commit" =>
       /\ loc[r].attempts < MaxAttempts
       /\ Cardinality(tx[r].ordNew) = 1
       /\ \A o \in tx[r].ordNew :
            /\ o.id = loc[r].order_id
            /\ \A c \in orders : c.ref_num # o.ref_num /\ c.id # o.id
  /\ \A r \in Reqs : IsVerify(r) /\ Answered(r) /\ resp[r].status = 200 =>
       Cardinality({ o \in orders : o.id = loc[r].order_id }) = 1

C9_Witness ==
  \E r \in Reqs :
    /\ pc[r] = "vc_commit"
    /\ loc[r].attempts >= 1
    /\ \E o \in tx[r].ordNew : \A c \in orders : c.ref_num # o.ref_num

\* C10: verify-and-create makes at most 8 order-insert attempts; it gives up
\* for want of a reference number exactly when all 8 collided, and then
\* answers 500 with nothing of the attempt persisted: no order, no customer
\* row, the challenge still pending.
C10_ExhaustionRollsBack ==
  /\ [](\A r \in Reqs : loc[r].attempts <= MaxAttempts)
  /\ [][\A r \in Reqs :
          pc[r] = "vc_insert" /\ pc'[r] = "done"
            => /\ resp'[r].details = Exhausted <=> loc[r].attempts = MaxAttempts
               /\ resp'[r].status = 500
               /\ orders' = orders
               /\ customer' = customer
               /\ code_verify' = code_verify
               /\ tx'[r] = NoTx
               /\ Challenge(loc[r].code_row).status = Pending]_vars

C10_Witness ==
  \E r \in Reqs :
    /\ IsVerify(r) /\ Answered(r)
    /\ resp[r].status = 500 /\ resp[r].details = Exhausted
    /\ Challenge(loc[r].code_row).status = Pending
    /\ \A p \in consumedFor : p.challenge # loc[r].code_row

IsRequest(r) == loc[r].op = "request"

IsTrack(r) == loc[r].op = "track"

\* C11: when the confirmation email fails after verify-and-create has
\* committed, the order stays persisted and the challenge consumed, and the
\* request answers 200 with email_sent false and email_error filled.
C11_EmailFailureKeepsOrder ==
  /\ [](\A r \in Reqs :
          IsVerify(r) /\ Answered(r) /\ resp[r].status = 200 =>
            /\ \E o \in orders : o.id = loc[r].order_id
            /\ Challenge(loc[r].code_row).status = Consumed
            /\ ~resp[r].email_sent <=> resp[r].error = "email_error")
  /\ [][\A r \in Reqs :
          pc[r] = "vc_email" /\ pc'[r] # "vc_email"
            => /\ pc'[r] = "done" /\ resp'[r].status = 200
               /\ orders' = orders /\ code_verify' = code_verify /\ customer' = customer]_vars

C11_Witness ==
  \E r \in Reqs : \E o \in orders :
    /\ IsVerify(r) /\ Answered(r)
    /\ resp[r].status = 200 /\ ~resp[r].email_sent /\ resp[r].error = "email_error"
    /\ o.id = loc[r].order_id
    /\ Challenge(loc[r].code_row).status = Consumed

TxErrors == { "Failed to generate verification code." }

\* C12 as stated: whenever request-code has answered with an error, the
\* challenge it generated is not in the committed table.
C12_ErrorMeansRolledBack ==
  \A r \in Reqs :
    IsRequest(r) /\ Answered(r) /\ resp[r].status >= 400 =>
      ~\E c \in code_verify :
         c.issued /\ c.identifier = loc[r].email /\ c.code = loc[r].code /\ c.status = Pending

\* C12 as amended: an error request-code answers from inside its transaction
\* (no unique code after 8 attempts, a persistence failure) comes after the
\* rollback, with the committed challenge table as it was and nothing held;
\* the error answered for a failed email comes after the commit and leaves
\* the new challenge persisted.
C12_TxErrorMeansRolledBack ==
  /\ [][\A r \in Reqs :
          pc[r] \in {"rc_update", "rc_insert", "rc_commit"} /\ pc'[r] = "done"
            => /\ resp'[r].status = 500 /\ resp'[r].error \in TxErrors
               /\ code_verify' = code_verify
               /\ tx'[r] = NoTx
               /\ r \notin borrowed']_vars
  /\ [][\A r \in Reqs :
          pc[r] = "rc_email" /\ pc'[r] = "done"
            => /\ code_verify' = code_verify
               /\ resp'[r].error \notin TxErrors
               /\ \E c \in code_verify :
                    c.issued /\ c.identifier = loc[r].email /\ c.code = loc[r].code]_vars
  /\ [](\A r \in Reqs : IsRequest(r) /\ Answered(r) /\ resp[r].error \in TxErrors
          => resp[r].status = 500 /\ tx[r] = NoTx)

C12_Witness ==
  \E r \in Reqs : \E c \in code_verify :
    /\ IsRequest(r) /\ Answered(r)
    /\ resp[r].status = 500 /\ resp[r].error \in TxErrors
    /\ c.identifier = loc[r].email /\ c.status = Pending
    /\ \A d \in code_verify : d.identifier = c.identifier => d.id <= c.id

\* C13: a request holds a connection only while it is in progress, and
\* whenever no request is in progress no connection is out of the pool.
C13_NoConnectionLeaks ==
  /\ borrowed \subseteq InFlight
  /\ InFlight = {} => Cardinality(borrowed) + lost = 0

\* The statuses of RawStatuses by the key the tracking view is to show.
CancelledStatuses ==
  { Text(<<"C", "A", "N", "C", "E", "L", "L", "E", "D">>),
    Text(<<"\t", "C", "a", "n", "c", "e", "l", "l", "e", "d", "\t">>) }

ReadyStatuses ==
  { Text(<<"C", "o", "m", "p", "l", "e", "t", "e", "d">>),
    Text(<<"r", "e", "a", "d", "y">>),
    Text(<<"D", "e", "l", "i", "v", "e", "r", "e", "d", " ">>),
    Text(<<"r", "e", "a", "d", "y", " ", "f", "o", "r", " ", "p", "i", "c", "k", "u", "p">>),
    Text(<<" ", "c", "o", "m", "p", "l", "e", "t", "e">>),
    Text(<<"d", "e", "l", "i", "v", "e", "r", "y">>),
    Text(<<"R", "e", "a", "d", "y", "_", "F", "o", "r", "_", "P", "i", "c", "k", "u", "p">>) }

ExpectedKey(db_status) ==
  IF db_status \in CancelledStatuses THEN "cancelled"
  ELSE IF db_status \in ReadyStatuses THEN "ready_for_pickup"
  ELSE "pending"

\* C14: normalize_tracking_status maps every stored status, NULL included, to
\* exactly one of cancelled, ready_for_pickup and pending: cancelled for the
\* spellings of 'cancelled' up to case and surrounding blanks, ready_for_pickup
\* for those of completed, complete, ready, ready for pickup, delivery and
\* delivered, pending for everything else.
C14_StatusNormalized ==
  \A r \in Reqs :
    IsTrack(r) /\ Answered(r) /\ resp[r].status = 200 =>
      /\ resp[r].db_status \in RawStatuses
      /\ resp[r].order_status \in {"cancelled", "ready_for_pickup", "pending"}
      /\ resp[r].order_status = ExpectedKey(resp[r].db_status)

C14_Witness ==
  \E r \in Reqs :
    /\ IsTrack(r) /\ Answered(r) /\ resp[r].status = 200
    /\ resp[r].db_status = Text(<<"D", "e", "l", "i", "v", "e", "r", "e", "d", " ">>)
    /\ resp[r].order_status = "ready_for_pickup"

\* C15: the tracking answer of an existing order has current_index 1 exactly
\* when its normalized status is ready_for_pickup and 0 otherwise, and
\* is_cancelled exactly when it is cancelled; a reference with no order is
\* answered 404.
C15_TrackingView ==
  /\ [](\A r \in Reqs :
          IsTrack(r) /\ Answered(r) /\ resp[r].status = 200 =>
            /\ resp[r].current_index = (IF resp[r].order_status = "ready_for_pickup" THEN 1 ELSE 0)
            /\ resp[r].is_cancelled <=> resp[r].order_status = "cancelled")
  /\ [][\A r \in Reqs :
          pc[r] = "tk_select" /\ pc'[r] = "done" /\ resp'[r].details # DbFailure
            => IF \E o \in orders : o.ref_num = loc[r].ref_num
               THEN /\ resp'[r].status = 200
                    /\ resp'[r].order_number = loc[r].ref_num
                    /\ \E o \in orders : o.ref_num = loc[r].ref_num /\ o.status = resp'[r].db_status
               ELSE resp'[r].status = 404 /\ resp'[r].error = "Order not found."]_vars

C15_Witness ==
  \E r, q \in Reqs :
    /\ IsTrack(r) /\ Answered(r) /\ resp[r].status = 200
    /\ resp[r].order_status = "ready_for_pickup" /\ resp[r].current_index = 1
    /\ ~resp[r].is_cancelled
    /\ IsTrack(q) /\ Answered(q) /\ resp[q].status = 404

\* The code of request r is the one request-code issued last for its email,
\* the only pending one, inside the 300 s window.
IssuedCode(r) ==
  \E c \in code_verify :
    /\ c.issued /\ c.identifier = loc[r].email /\ c.code = loc[r].code
    /\ c.status = Pending
    /\ now < c.created_at + ExpiresInSeconds
    /\ \A d \in code_verify : d.identifier = c.identifier /\ d.status = Pending => d = c

\* C16: request-code for an email, then verify-and-create with the issued code
\* and a cart of one available item priced 5.00 with quantity 2 gives a
\* committed order of amount 10.00 and status pending, and tracking its
\* reference number answers current_index 0 and is_cancelled false.
C16_EndToEnd ==
  /\ [][\A r \in Reqs :
          pc[r] = "vc_select" /\ pc'[r] = "done" /\ IssuedCode(r)
            => resp'[r].error # InvalidCode]_vars
  /\ [](\A o \in orders :
          o.items = <<OrderItem(MenuRow(menu, 1), 2)>> => o.amount = 1000 /\ o.status = StatusPending)
  /\ [](\A r \in Reqs :
          IsTrack(r) /\ Answered(r) /\ resp[r].status = 200 /\ resp[r].db_status = StatusPending
            => resp[r].current_index = 0 /\ ~resp[r].is_cancelled)

\* C17: a verify-and-create against a pending challenge whose expiry has
\* passed leaves that challenge superseded in the committed table.
C17_ExpiredIsSuperseded ==
  [][\A r \in Reqs :
       pc[r] = "vc_select" /\ pc'[r] = "done" /\ resp'[r].error = InvalidCode
         => \A u \in tx[r].upd : u.status = Superseded =>
              \E c \in code_verify' : c.id = u.id /\ c.status = Superseded]_vars

InTransaction(r) ==
  pc[r] \in {"rc_update", "rc_insert", "rc_commit", "vc_expire", "vc_select", "vc_cart",
             "vc_customer", "vc_consume", "vc_insert", "vc_commit"}

Sending(r) == pc[r] \in {"rc_email", "vc_email"}

\* C19: while a request sends its email it holds no open transaction, no row
\* lock and no connection; the send is reached only through the commit, and no
\* request that was rolled back has sent an email.
C19_EmailAfterCommit ==
  /\ [](\A r \in Reqs : Sending(r) => tx[r] = NoTx /\ r \notin borrowed)
  /\ [](\A r \in Reqs : resp[r].email_sent => resp[r].status = 200)
  /\ [][\A r \in Reqs :
          /\ pc'[r] = "rc_email" /\ pc[r] # "rc_email"
               => pc[r] = "rc_commit" /\ tx[r].cvNew # {} /\ tx[r].cvNew \subseteq code_verify'
          /\ pc'[r] = "vc_email" /\ pc[r] # "vc_email"
               => pc[r] = "vc_commit" /\ tx[r].ordNew # {} /\ tx[r].ordNew \subseteq orders'
          /\ InTransaction(r) /\ pc'[r] = "done" => ~resp'[r].email_sent]_vars

C19_Witness ==
  \E r, q \in Reqs :
    /\ pc[r] = "vc_email"
    /\ \E o \in orders : o.id = loc[r].order_id
    /\ pc[q] = "rc_email"

\* C20: an order from an email with no customer row creates one; an order from
\* an email that has customer rows references the most recent of them and
\* inserts none.
C20_CustomerReuse ==
  [][\A r \in Reqs :
       pc[r] = "vc_commit" /\ pc'[r] = "vc_email"
         => LET prior == { c \in customer : c.email = loc[r].email } IN
            \E o \in orders' \ orders :
              /\ orders' = orders \cup {o}
              /\ IF prior = {}
                 THEN \E c \in customer' \ customer :
                        /\ customer' = customer \cup {c}
                        /\ c.email = loc[r].email
                        /\ o.customer_id = c.id
                 ELSE /\ customer' = customer
                      /\ o.customer_id = MaxId({ c.id : c \in prior })]_vars

C20_Witness ==
  \E r \in Reqs : \E o \in orders :
    /\ IsVerify(r) /\ Answered(r) /\ resp[r].status = 200
    /\ o.id = loc[r].order_id
    /\ Cardinality({ c \in customer : c.email = loc[r].email }) = 2
    /\ o.customer_id = 2

\* A cart with an entry of bad shape: not an object, an id or a quantity that
\* is no integer, a quantity below 1.
Malformed(raw_items) ==
  \E i \in 1..Len(raw_items) :
    \/ ~raw_items[i].obj
    \/ ~IntOk(raw_items[i].id)
    \/ ~IntOk(raw_items[i].qty)
    \/ IntVal(raw_items[i].qty) < 1

\* C21: a verify-and-create turned down for a malformed cart (a non-object
\* entry, a missing or non-integer id, a non-integer quantity, a quantity
\* below 1) is answered with a 4xx status, never a 5xx, and creates no order.
C21_MalformedCartIsClientError ==
  [][\A r \in Reqs :
       /\ pc[r] = "vc_cart" /\ pc'[r] = "done"
       /\ resp'[r].details # DbFailure
       /\ Malformed(loc'[r].items)
       => /\ resp'[r].status \in 400..499
          /\ orders' = orders]_vars

\* The cart of r has been resolved against the catalog.
CartResolved(r) == loc[r].order_items # << >>

\* C22: verify-and-create resolves the cart against the catalog before it
\* looks up the challenge: while the cart is unresolved the request has found
\* and locked no challenge, a request turned down for its cart has looked up
\* none, and a request turned down for its code had its cart resolved before.
C22_CartBeforeCode ==
  /\ [](\A r \in Reqs :
          r \in InFlight /\ IsVerify(r) /\ ~CartResolved(r) => loc[r].code_row = 0)
  /\ [][\A r \in Reqs :
          pc[r] = "vc_cart" /\ pc'[r] = "done" /\ resp'[r].error \in CartErrors
            => loc[r].code_row = 0]_vars
  /\ [][\A r \in Reqs :
          pc[r] = "vc_select" /\ pc'[r] = "done" /\ resp'[r].error = InvalidCode
            => CartResolved(r)]_vars

\* The status of challenge k in the committed table ct.
StatusIn(ct, k) == (CHOOSE c \in ct : c.id = k).status

\* C23: a committed challenge only moves from pending to consumed or from
\* pending to superseded and never changes status after that; a challenge is
\* consumed by one transaction at most, and the transaction that commits an
\* order found its challenge pending in the committed table, not superseded.
C23_StatusOnlyForward ==
  /\ [][\A c \in code_verify :
          /\ \E d \in code_verify' : d.id = c.id
          /\ StatusIn(code_verify', c.id) # c.status
               => c.status = Pending /\ StatusIn(code_verify', c.id) \in {Consumed, Superseded}]_vars
  /\ [](\A r, q \in Reqs : \A u \in tx[r].upd : \A v \in tx[q].upd :
          u.id = v.id /\ u.status = Consumed /\ v.status = Consumed => r = q)
  /\ [](\A r \in Reqs : \A u \in tx[r].upd :
          u.status = Consumed => StatusIn(code_verify, u.id) = Pending)
  /\ [][\A r \in Reqs :
          pc[r] = "vc_commit" /\ pc'[r] = "vc_email"
            => /\ StatusIn(code_verify, loc[r].code_row) = Pending
               /\ StatusIn(code_verify', loc[r].code_row) = Consumed]_vars

C23_Witness ==
  \E r, q \in Reqs : \E c \in code_verify :
    /\ IsVerify(r) /\ Answered(r) /\ resp[r].error = InvalidCode
    /\ IsRequest(q) /\ Raced(r, q) /\ loc[q].email = loc[r].email
    /\ c.identifier = loc[r].email /\ c.code = loc[r].code
    /\ ~c.issued /\ c.status = Superseded

====
